---- MODULE Spec2Model ----
(***************************************************************************)
(* Batch dispatcher of the ingestion pipeline.                             *)
(*                                                                         *)
(*   src/ingestion.py    index_documents_async / add_batch: group          *)
(*                       splitting, semaphore, sliding-window rate         *)
(*                       limiter, retry with backoff, result tally.        *)
(*   src/vectorstore.py  VertexAIEmbeddings: token-budgeted batching       *)
(*                       (embed_documents), _predict_with_retry and        *)
(*                       embed_query.                                      *)
(*                                                                         *)
(* Time is counted in ticks, TicksPerSecond of them to a second.  A        *)
(* timestamp t held by the program is represented by its age now - t in    *)
(* ticks, capped at TicksPerSecond (the code only ever asks whether        *)
(* now - t >= 1).  A document is represented by its token cost.            *)
(***************************************************************************)
EXTENDS Integers, Sequences, FiniteSets, Bags

\* ---------------------------------------------------------------- bounds
\* ticks to the second
TicksPerSecond == 2
\* longest list of documents
MaxDocs == 3
\* MAX_REQUESTS_PER_SECOND = 20 and deque(maxlen=...), scaled down
MAX_REQUESTS_PER_SECOND == 2
\* asyncio.Semaphore(3), scaled down
SemaphoreSize == 2

\* longest list of documents when the embedding is spelled out
MaxTexts == 3
\* max_tokens = 17500, scaled down
MaxTokens == 2

\* the values the arguments are drawn from
RunCosts == {1, 2, 3}
RunBatchSizes == {1, 2, 3}
EmbBatchSizes == {1, 2, 3}
RunMaxRetriesChoices == {0, 1, 2}
EmbMaxRetriesChoices == {0, 1}
RunRetryMinSecondsChoices == {0, 1}
BatchSizes == {1, 2}
MaxRetriesChoices == {0, 1}
RetryMinSecondsChoices == {0}

VARIABLES
    documents,            \* argument: the documents, each by token cost
    batch_size,           \* argument of index_documents_async
    retry_min_seconds,    \* argument
    max_retries,          \* argument
    semaphore,            \* free permits of the module-level semaphore
    last_request_times,   \* the deque, oldest first, as ages in ticks
    pc,                   \* per add_batch task: where it is suspended
    attempt,              \* per task: the loop variable of add_batch
    sleep,                \* per task: ticks left of the current asyncio.sleep
    holds,                \* per task: inside "async with semaphore"
    outcome,              \* per task: what add_batch returned
    completed,            \* what the finished tasks returned, in finishing order
    results,              \* the list built by the as_completed loop
    mainpc,               \* index_documents_async itself
    successful,           \* the tally
    admitted,             \* history: ages (< 1 s) of all rate-limiter admissions
    calls,                \* history: aadd_documents calls started, per task
    waits,                \* history: backoff sleeps begun, per task
    last_wait,            \* history: the latest wait_time of a task that may wait again
    emb,                  \* the VertexAIEmbeddings object: its configuration
    epc,                  \* per task: where its embed_documents call stands
    i,                    \* per task: the cursor of embed_documents
    current_batch_size,   \* per task: the shrinking size of embed_documents
    pattempt,             \* per task: the loop variable of _predict_with_retry
    eresults,             \* per task: the results list of embed_documents
    warnings,             \* per task: indexes named by "Skipping document"
    submitted,            \* history: the bag of predict requests <<i, size>>, per task
    pwaits,               \* history: backoff sleeps of the current _predict_with_retry
    pcalls,               \* history: predict calls of the current _predict_with_retry
    failures,             \* history: downstream calls (predict, store) that raised, per task
    qpc,                  \* where the embed_query call stands
    query,                \* argument of embed_query: the text, by token count
    qattempt,             \* the loop variable of its _predict_with_retry
    qsleep,               \* ticks left of the time.sleep of its _predict_with_retry
    qinstances,           \* the instances it handed to _predict_with_retry
    qinvocations,         \* history: times embed_query invoked _predict_with_retry
    qpredicts             \* history: client.predict calls made for the query

vars == <<documents, batch_size, retry_min_seconds, max_retries, semaphore,
          last_request_times, pc, attempt, sleep, holds, outcome, completed,
          results, mainpc, successful, admitted, calls, waits, emb, epc, i,
          current_batch_size, pattempt, eresults, warnings, submitted, pwaits,
          pcalls, failures, last_wait, qpc, query, qattempt, qsleep, qinstances,
          qinvocations, qpredicts>>

argVars == <<documents, batch_size, retry_min_seconds, max_retries>>
queryVars == <<qpc, query, qattempt, qinstances, qinvocations, qpredicts>>
mainVars == <<results, mainpc, successful>>
embedVars == <<emb, epc, i, current_batch_size, pattempt, eresults, warnings,
               submitted, pwaits, pcalls>>
gateVars == <<semaphore, last_request_times, pc, attempt, sleep, holds, outcome,
              completed, admitted, calls, waits, last_wait>>

\* ---------------------------------------------------------------- helpers
Min(a, b) == IF a < b THEN a ELSE b

RECURSIVE Pow2(_)
Pow2(n) == IF n = 0 THEN 1 ELSE 2 * Pow2(n - 1)

RECURSIVE SeqSum(_)
SeqSum(s) == IF s = <<>> THEN 0 ELSE Head(s) + SeqSum(Tail(s))

\* range(0, n, step) as the sequence of its values
Range(n, step) == [k \in 1..((n + step - 1) \div step) |-> (k - 1) * step]

\* documents[i : i + n] with a 0-based start, clipped as Python slices are
Slice(s, start, n) == SubSeq(s, start + 1, Min(start + n, Len(s)))

\* a split that keeps only the full groups
batchesFullOnly ==
    LET starts == Range(Len(documents) - (Len(documents) % batch_size), batch_size)
    IN  [k \in 1..Len(starts) |-> Slice(documents, starts[k], batch_size)]

\* batches = [documents[i : i + batch_size] for i in range(0, len, batch_size)]
batches ==
    LET starts == Range(Len(documents), batch_size)
    IN  [k \in 1..Len(starts) |-> Slice(documents, starts[k], batch_size)]

\* tasks = [add_batch(batch, i + 1) for i, batch in enumerate(batches)]
Tasks == DOMAIN pc

\* ----------------------------------------------------------- rate limiter
\* while last_request_times and now - last_request_times[0] >= 1: popleft()
RECURSIVE PopOld(_)
PopOld(q) ==
    IF q # <<>> /\ Head(q) >= TicksPerSecond THEN PopOld(Tail(q)) ELSE q

\* deque.append on a deque with maxlen: a full deque drops its left end
DequeAppend(q, x) ==
    IF Len(q) >= MAX_REQUESTS_PER_SECOND THEN Append(Tail(q), x) ELSE Append(q, x)

\* len(last_request_times) >= MAX_REQUESTS_PER_SECOND
WindowFull(q) == Len(q) >= MAX_REQUESTS_PER_SECOND

\* sleep_time = 1 - (now - last_request_times[0])
SleepTime(q) == TicksPerSecond - Head(q)

\* an admission that leaves no timestamp behind
AdmitNoTimestamp(g) ==
    /\ UNCHANGED last_request_times
    /\ admitted' = Append(admitted, 0)
    /\ calls' = [calls EXCEPT ![g] = @ + 1]
    /\ pc' = [pc EXCEPT ![g] = "call"]

\* last_request_times.append(time.time()), then the call of aadd_documents starts
Admit(g) ==
    /\ last_request_times' = DequeAppend(last_request_times, 0)
    /\ admitted' = Append(admitted, 0)
    /\ calls' = [calls EXCEPT ![g] = @ + 1]
    /\ pc' = [pc EXCEPT ![g] = "call"]

\* ------------------------------------------------------------- semaphore
\* a semaphore whose acquire never waits
LockedNever == FALSE

\* asyncio.Semaphore.locked()
Locked == semaphore = 0

\* __aexit__ of "async with semaphore"
Release(g) ==
    /\ semaphore' = semaphore + 1
    /\ holds' = [holds EXCEPT ![g] = FALSE]

\* ------------------------------------------------------------- add_batch
\* "async with semaphore" entered, then the rate limiter up to its first
\* suspension point: either the sleep or the downstream call.
Acquire(g) ==
    /\ pc[g] = "acquire"
    /\ ~Locked
    /\ semaphore' = semaphore - 1
    /\ holds' = [holds EXCEPT ![g] = TRUE]
    /\ LET q == PopOld(last_request_times)
       IN  IF WindowFull(q)
           THEN /\ last_request_times' = q
                /\ sleep' = [sleep EXCEPT ![g] = SleepTime(q)]
                /\ pc' = [pc EXCEPT ![g] = "rl_sleep"]
                /\ UNCHANGED <<admitted, calls>>
           ELSE /\ last_request_times' = DequeAppend(q, 0)
                /\ admitted' = Append(admitted, 0)
                /\ calls' = [calls EXCEPT ![g] = @ + 1]
                /\ pc' = [pc EXCEPT ![g] = "call"]
                /\ UNCHANGED sleep
    /\ UNCHANGED <<argVars, queryVars, qsleep, attempt, outcome, completed, mainVars, waits, last_wait,
                   embedVars>>
    /\ UNCHANGED failures

\* the rate limiter's asyncio.sleep(sleep_time) returns
RateLimitWake(g) ==
    /\ pc[g] = "rl_sleep"
    /\ sleep[g] = 0
    /\ Admit(g)
    /\ UNCHANGED <<argVars, queryVars, qsleep, semaphore, attempt, sleep, holds, outcome, completed,
                   mainVars, waits, last_wait, embedVars>>
    /\ UNCHANGED failures

\* return of add_batch: the task is done and as_completed will yield it
Return(g, value) ==
    /\ pc' = [pc EXCEPT ![g] = "done"]
    /\ outcome' = [outcome EXCEPT ![g] = value]
    /\ completed' = Append(completed, value)
    /\ last_wait' = [last_wait EXCEPT ![g] = 0]

\* await vectorstore.aadd_documents(batch) returned: return True
OnSuccess(g) ==
    /\ Release(g)
    /\ Return(g, "True")
    /\ UNCHANGED <<attempt, sleep, waits>>

\* a handler that re-raises at the last attempt, as _predict_with_retry does
OnExhaustedRaises(g) ==
    /\ Release(g)
    /\ Return(g, "raised")
    /\ UNCHANGED <<attempt, sleep, waits>>

\* a handler that leaves at the last attempt without giving the permit back
OnExhaustedKeepsPermit(g) ==
    /\ Return(g, "False")
    /\ UNCHANGED <<semaphore, holds, attempt, sleep, waits>>

\* except Exception, attempt == max_retries: break, then return False
OnExhausted(g) ==
    /\ Release(g)
    /\ Return(g, "False")
    /\ UNCHANGED <<attempt, sleep, waits>>

\* random.uniform(0, 1) is 0 + (1 - 0) * random() with random() in [0, 1): whole
\* ticks short of a second
Jitter == 0..(TicksPerSecond - 1)

\* a backoff that does not grow with the attempt
WaitTimeFlat(a, jitter) == retry_min_seconds * TicksPerSecond + jitter

\* wait_time = retry_min_seconds * (2 ** attempt) + random.uniform(0, 1)
WaitTime(a, jitter) == retry_min_seconds * TicksPerSecond * Pow2(a) + jitter

\* except Exception, attempt < max_retries: asyncio.sleep(wait_time) begins,
\* still inside "async with semaphore"
OnRetry(g) ==
    \E jitter \in Jitter :
        /\ sleep' = [sleep EXCEPT ![g] = WaitTime(attempt[g], jitter)]
        /\ last_wait' = [last_wait EXCEPT
                            ![g] = IF attempt[g] + 1 < max_retries
                                   THEN WaitTime(attempt[g], jitter) ELSE 0]
        /\ waits' = [waits EXCEPT ![g] = @ + 1]
        /\ pc' = [pc EXCEPT ![g] = "backoff"]
        /\ UNCHANGED <<semaphore, holds, attempt, outcome, completed>>

\* an except clause that never gives up
OnFailureAlwaysRetry(g) == OnRetry(g)

\* the except clause of add_batch
OnFailure(g) ==
    IF attempt[g] = max_retries THEN OnExhausted(g) ELSE OnRetry(g)

\* the downstream call, seen from add_batch: it returns
CallReturns(g) ==
    /\ pc[g] = "call"
    /\ OnSuccess(g)
    /\ UNCHANGED <<argVars, queryVars, qsleep, last_request_times, mainVars, admitted, calls, embedVars>>
    /\ UNCHANGED failures

\* the downstream call, seen from add_batch: it raises
CallRaises(g) ==
    /\ pc[g] = "call"
    /\ OnFailure(g)
    /\ UNCHANGED <<argVars, queryVars, qsleep, last_request_times, mainVars, admitted, calls, embedVars>>
    /\ failures' = [failures EXCEPT ![g] = @ + 1]

\* a retry that does not wait for its backoff sleep to end
BackoffWakeEarly(g) ==
    /\ pc[g] = "backoff"
    /\ Release(g)
    /\ attempt' = [attempt EXCEPT ![g] = @ + 1]
    /\ IF attempt[g] + 1 < max_retries + 1
       THEN /\ pc' = [pc EXCEPT ![g] = "acquire"]
            /\ UNCHANGED <<outcome, completed, last_wait>>
       ELSE Return(g, "False")
    /\ UNCHANGED <<argVars, queryVars, qsleep, last_request_times, sleep, mainVars,
                   admitted, calls, waits, embedVars, failures>>

\* a retry that goes for a new permit without giving back the one it has
BackoffWakeKeepsPermit(g) ==
    /\ pc[g] = "backoff"
    /\ sleep[g] = 0
    /\ attempt' = [attempt EXCEPT ![g] = @ + 1]
    /\ IF attempt[g] + 1 < max_retries + 1
       THEN /\ pc' = [pc EXCEPT ![g] = "acquire"]
            /\ UNCHANGED <<outcome, completed, last_wait>>
       ELSE Return(g, "False")
    /\ UNCHANGED <<argVars, queryVars, qsleep, semaphore, holds, last_request_times,
                   sleep, mainVars, admitted, calls, waits, embedVars, failures>>

\* the backoff sleep returns: continue leaves "async with"; the for loop goes
\* on with the next attempt, or is exhausted and add_batch returns False
BackoffWake(g) ==
    /\ pc[g] = "backoff"
    /\ sleep[g] = 0
    /\ Release(g)
    /\ attempt' = [attempt EXCEPT ![g] = @ + 1]
    /\ IF attempt[g] + 1 < max_retries + 1
       THEN /\ pc' = [pc EXCEPT ![g] = "acquire"]
            /\ UNCHANGED <<outcome, completed, last_wait>>
       ELSE Return(g, "False")
    /\ UNCHANGED <<argVars, queryVars, qsleep, last_request_times, sleep, mainVars, admitted, calls,
                   waits, embedVars>>
    /\ UNCHANGED failures

\* ------------------------------------------------------ embed_documents
\* the page contents of the group a task was given
texts(g) == batches[g]

\* count_tokens: a text is represented by its token count
count_tokens(t) == t

\* total_tokens = sum(count_tokens(t) for t in batch)
total_tokens(batch) == SeqSum([k \in DOMAIN batch |-> count_tokens(batch[k])])

\* a budget test that lets one token too many through
WithinBudgetOffByOne(batch) == total_tokens(batch) <= emb.max_tokens + 1

\* total_tokens <= self.max_tokens
WithinBudget(batch) == total_tokens(batch) <= emb.max_tokens

\* batch = texts[i:i+current_batch_size]
CurrentBatch(g) == Slice(texts(g), i[g], current_batch_size[g])

\* response.predictions: one embedding per instance, in order; the embedding of
\* texts[k] is represented by k
Predictions(g) == [k \in 1..Len(CurrentBatch(g)) |-> i[g] + k - 1]

\* wait_time = self.retry_min_seconds * (2 ** attempt) + random.uniform(0, 1)
EmbWaitTime(a, jitter) == emb.retry_min_seconds * TicksPerSecond * Pow2(a) + jitter

\* vectorstore.aadd_documents(batch) starts embed_documents in the executor
EmbedBegin(g) ==
    /\ pc[g] = "call"
    /\ epc[g] = "idle"
    /\ epc' = [epc EXCEPT ![g] = "outer"]
    /\ i' = [i EXCEPT ![g] = 0]
    /\ eresults' = [eresults EXCEPT ![g] = <<>>]
    /\ warnings' = [warnings EXCEPT ![g] = <<>>]
    /\ UNCHANGED <<argVars, queryVars, qsleep, gateVars, mainVars, emb, current_batch_size, pattempt,
                   submitted, pwaits, pcalls>>
    /\ UNCHANGED failures

\* while i < len(texts): current_batch_size = self.batch_size; else return results
EmbedOuter(g) ==
    /\ epc[g] = "outer"
    /\ IF i[g] < Len(texts(g))
       THEN /\ current_batch_size' = [current_batch_size EXCEPT ![g] = emb.batch_size]
            /\ epc' = [epc EXCEPT ![g] = "inner"]
       ELSE /\ epc' = [epc EXCEPT ![g] = "returned"]
            /\ UNCHANGED current_batch_size
    /\ UNCHANGED <<argVars, queryVars, qsleep, gateVars, mainVars, emb, i, pattempt, eresults,
                   warnings, submitted, pwaits, pcalls>>
    /\ UNCHANGED failures

\* one attempt of _predict_with_retry: the for loop gives the next attempt
\* index and client.predict is called, or the loop is exhausted and the
\* safeguard RuntimeError is raised
PredictLoop(g, a) ==
    IF a < emb.max_retries + 1
    THEN /\ pattempt' = [pattempt EXCEPT ![g] = a]
         /\ epc' = [epc EXCEPT ![g] = "predict"]
         /\ submitted' = [submitted EXCEPT
                            ![g] = @ (+) SetToBag({<<i[g], Len(CurrentBatch(g))>>})]
         /\ pcalls' = [pcalls EXCEPT ![g] = IF a = 0 THEN 1 ELSE @ + 1]
    ELSE /\ epc' = [epc EXCEPT ![g] = "runtime_error"]
         /\ pcalls' = [pcalls EXCEPT ![g] = IF a = 0 THEN 0 ELSE @]
         /\ UNCHANGED <<pattempt, submitted>>

\* inner loop, total_tokens <= self.max_tokens: _predict_with_retry(instances)
EmbedSubmit(g) ==
    /\ epc[g] = "inner"
    /\ current_batch_size[g] > 0
    /\ WithinBudget(CurrentBatch(g))
    /\ PredictLoop(g, 0)
    /\ pwaits' = [pwaits EXCEPT ![g] = 0]
    /\ UNCHANGED <<argVars, queryVars, qsleep, gateVars, mainVars, emb, i, current_batch_size,
                   eresults, warnings>>
    /\ UNCHANGED failures

\* a shrink that falls back to single texts at once
EmbedShrinkToOne(g) ==
    /\ epc[g] = "inner"
    /\ current_batch_size[g] > 0
    /\ ~WithinBudget(CurrentBatch(g))
    /\ current_batch_size' = [current_batch_size EXCEPT
                                ![g] = IF @ > 1 THEN 1 ELSE 0]
    /\ UNCHANGED <<argVars, queryVars, qsleep, gateVars, mainVars, emb, epc, i, pattempt, eresults,
                   warnings, submitted, pwaits, pcalls, failures>>

\* inner loop, total_tokens > self.max_tokens: current_batch_size -= 1
EmbedShrink(g) ==
    /\ epc[g] = "inner"
    /\ current_batch_size[g] > 0
    /\ ~WithinBudget(CurrentBatch(g))
    /\ current_batch_size' = [current_batch_size EXCEPT ![g] = @ - 1]
    /\ UNCHANGED <<argVars, queryVars, qsleep, gateVars, mainVars, emb, epc, i, pattempt, eresults,
                   warnings, submitted, pwaits, pcalls>>
    /\ UNCHANGED failures

\* a skip that logs nothing
EmbedSkipSilent(g) ==
    /\ epc[g] = "inner"
    /\ ~(current_batch_size[g] > 0)
    /\ i' = [i EXCEPT ![g] = @ + 1]
    /\ epc' = [epc EXCEPT ![g] = "outer"]
    /\ UNCHANGED <<argVars, queryVars, qsleep, gateVars, mainVars, emb, current_batch_size, pattempt,
                   eresults, warnings, submitted, pwaits, pcalls, failures>>

\* a skip that leaves the cursor where it is
EmbedSkipStays(g) ==
    /\ epc[g] = "inner"
    /\ ~(current_batch_size[g] > 0)
    /\ epc' = [epc EXCEPT ![g] = "outer"]
    /\ UNCHANGED <<argVars, queryVars, qsleep, gateVars, mainVars, emb, i,
                   current_batch_size, pattempt, eresults, warnings, submitted,
                   pwaits, pcalls, failures>>

\* inner loop left with current_batch_size == 0: log_warning, i += 1
EmbedSkip(g) ==
    /\ epc[g] = "inner"
    /\ ~(current_batch_size[g] > 0)
    /\ IF current_batch_size[g] = 0
       THEN /\ warnings' = [warnings EXCEPT ![g] = Append(@, i[g])]
            /\ i' = [i EXCEPT ![g] = @ + 1]
       ELSE UNCHANGED <<warnings, i>>
    /\ epc' = [epc EXCEPT ![g] = "outer"]
    /\ UNCHANGED <<argVars, queryVars, qsleep, gateVars, mainVars, emb, current_batch_size, pattempt,
                   eresults, submitted, pwaits, pcalls>>
    /\ UNCHANGED failures

\* a return that puts the new embeddings in front of the earlier ones
PredictReturnsPrepends(g) ==
    /\ epc[g] = "predict"
    /\ eresults' = [eresults EXCEPT ![g] = Predictions(g) \o @]
    /\ i' = [i EXCEPT ![g] = @ + current_batch_size[g]]
    /\ epc' = [epc EXCEPT ![g] = "outer"]
    /\ UNCHANGED <<argVars, queryVars, qsleep, gateVars, mainVars, emb,
                   current_batch_size, pattempt, warnings, submitted, pwaits,
                   pcalls, failures>>

\* client.predict returned: _predict_with_retry returns the response;
\* results.extend(batch_embeddings); i += current_batch_size; break
PredictReturns(g) ==
    /\ epc[g] = "predict"
    /\ eresults' = [eresults EXCEPT ![g] = @ \o Predictions(g)]
    /\ i' = [i EXCEPT ![g] = @ + current_batch_size[g]]
    /\ epc' = [epc EXCEPT ![g] = "outer"]
    /\ UNCHANGED <<argVars, queryVars, qsleep, gateVars, mainVars, emb, current_batch_size, pattempt,
                   warnings, submitted, pwaits, pcalls>>
    /\ UNCHANGED failures

\* an except clause that sleeps and goes on after the last attempt too
PredictRaisesGoesOn(g) ==
    /\ epc[g] = "predict"
    /\ \E jitter \in Jitter :
           /\ sleep' = [sleep EXCEPT ![g] = EmbWaitTime(pattempt[g], jitter)]
           /\ pwaits' = [pwaits EXCEPT ![g] = @ + 1]
           /\ epc' = [epc EXCEPT ![g] = "psleep"]
    /\ UNCHANGED <<argVars, queryVars, qsleep, semaphore, last_request_times, pc,
                   attempt, holds, outcome, completed, admitted, calls, waits,
                   last_wait, mainVars, emb, i, current_batch_size, pattempt,
                   eresults, warnings, submitted, pcalls>>
    /\ failures' = [failures EXCEPT ![g] = @ + 1]

\* client.predict raised: re-raise at attempt == max_retries, else
\* time.sleep(wait_time) in the executor thread
PredictRaises(g) ==
    /\ epc[g] = "predict"
    /\ IF pattempt[g] = emb.max_retries
       THEN /\ epc' = [epc EXCEPT ![g] = "raised"]
            /\ UNCHANGED <<sleep, pwaits>>
       ELSE \E jitter \in Jitter :
                /\ sleep' = [sleep EXCEPT ![g] = EmbWaitTime(pattempt[g], jitter)]
                /\ pwaits' = [pwaits EXCEPT ![g] = @ + 1]
                /\ epc' = [epc EXCEPT ![g] = "psleep"]
    /\ UNCHANGED <<argVars, queryVars, qsleep, semaphore, last_request_times, pc, attempt, holds,
                   outcome, completed, admitted, calls, waits, last_wait, mainVars,
                   emb, i, current_batch_size, pattempt, eresults, warnings,
                   submitted, pcalls>>
    /\ failures' = [failures EXCEPT ![g] = @ + 1]

\* time.sleep(wait_time) is over: continue with the next attempt
PredictWake(g) ==
    /\ epc[g] = "psleep"
    /\ sleep[g] = 0
    /\ PredictLoop(g, pattempt[g] + 1)
    /\ UNCHANGED <<argVars, queryVars, qsleep, gateVars, mainVars, emb, i, current_batch_size,
                   eresults, warnings, pwaits>>
    /\ UNCHANGED failures

\* the locals of a finished embed_documents call are gone
EmbedEnd(g) ==
    /\ epc' = [epc EXCEPT ![g] = "idle"]
    /\ i' = [i EXCEPT ![g] = 0]
    /\ current_batch_size' = [current_batch_size EXCEPT ![g] = 0]
    /\ pattempt' = [pattempt EXCEPT ![g] = 0]
    /\ eresults' = [eresults EXCEPT ![g] = <<>>]
    /\ UNCHANGED <<emb, warnings, submitted, pwaits, pcalls>>

\* embed_documents returned and the store took the documents:
\* aadd_documents returns
AddDocumentsReturns(g) ==
    /\ pc[g] = "call"
    /\ epc[g] = "returned"
    /\ OnSuccess(g)
    /\ EmbedEnd(g)
    /\ UNCHANGED <<argVars, queryVars, qsleep, last_request_times, mainVars, admitted, calls>>
    /\ UNCHANGED failures

\* embed_documents raised, or it returned and the store refused the documents:
\* aadd_documents raises
AddDocumentsRaises(g) ==
    /\ pc[g] = "call"
    /\ epc[g] \in {"returned", "raised", "runtime_error"}
    /\ OnFailure(g)
    /\ EmbedEnd(g)
    /\ UNCHANGED <<argVars, queryVars, qsleep, last_request_times, mainVars, admitted, calls>>
    /\ failures' = [failures EXCEPT ![g] = IF epc[g] = "returned" THEN @ + 1 ELSE @]

\* ---------------------------------------------------------- embed_query
\* everything but the state of the embed_query call
runVars == <<argVars, gateVars, mainVars, embedVars, failures>>

\* a length test that also refuses a query of exactly max_tokens
QueryTooLongOffByOne(text) == count_tokens(text) >= emb.max_tokens

\* total_tokens = count_tokens(text); total_tokens > self.max_tokens
QueryTooLong(text) == count_tokens(text) > emb.max_tokens

\* instances = [{"task_type": "RETRIEVAL_QUERY", "content": text}]
QueryInstances(text) == <<[task_type |-> "RETRIEVAL_QUERY", content |-> text]>>

\* one attempt of the _predict_with_retry call of embed_query
QueryPredictLoop(a) ==
    IF a < emb.max_retries + 1
    THEN /\ qattempt' = a
         /\ qpc' = "predict"
         /\ qpredicts' = qpredicts + 1
    ELSE /\ qpc' = "runtime_error"
         /\ UNCHANGED <<qattempt, qpredicts>>

\* embed_query(text) up to its raise or its first client.predict call
embed_query(text) ==
    /\ qpc = "idle"
    /\ query' = text
    /\ IF QueryTooLong(text)
       THEN /\ qpc' = "value_error"
            /\ UNCHANGED <<qattempt, qinstances, qinvocations, qpredicts>>
       ELSE /\ qinstances' = QueryInstances(text)
            /\ qinvocations' = qinvocations + 1
            /\ QueryPredictLoop(0)
    /\ UNCHANGED <<runVars, qsleep>>

\* client.predict returned: embed_query returns the first prediction
QueryPredictReturns ==
    /\ qpc = "predict"
    /\ qpc' = "returned"
    /\ UNCHANGED <<runVars, query, qattempt, qsleep, qinstances, qinvocations, qpredicts>>

\* client.predict raised: re-raise at attempt == max_retries, else time.sleep
QueryPredictRaises ==
    /\ qpc = "predict"
    /\ IF qattempt = emb.max_retries
       THEN /\ qpc' = "raised"
            /\ UNCHANGED qsleep
       ELSE \E jitter \in Jitter :
                /\ qsleep' = EmbWaitTime(qattempt, jitter)
                /\ qpc' = "psleep"
    /\ UNCHANGED <<runVars, query, qattempt, qinstances, qinvocations, qpredicts>>

\* time.sleep(wait_time) is over: continue with the next attempt
QueryPredictWake ==
    /\ qpc = "psleep"
    /\ qsleep = 0
    /\ QueryPredictLoop(qattempt + 1)
    /\ UNCHANGED <<runVars, query, qsleep, qinstances, qinvocations>>

\* ------------------------------------------------- index_documents_async
\* results.append(await result) on the next future as_completed yields
Collect ==
    /\ mainpc = "collecting"
    /\ Len(results) < Len(completed)
    /\ LET result == completed[Len(results) + 1]
       IN  IF result = "raised"
           THEN /\ mainpc' = "raised"
                /\ UNCHANGED results
           ELSE /\ results' = Append(results, result)
                /\ UNCHANGED mainpc
    /\ UNCHANGED <<argVars, queryVars, qsleep, semaphore, last_request_times, pc, attempt, sleep,
                   holds, outcome, completed, successful, admitted, calls, waits,
                   last_wait, embedVars>>
    /\ UNCHANGED failures

\* a tally that counts every result
CountAll(rs) == Len(rs)

\* successful = sum(1 for result in results if result is True)
CountTrue(rs) == Cardinality({k \in DOMAIN rs : rs[k] = "True"})

\* a loop that stops at the first result
FinishEarly ==
    /\ mainpc = "collecting"
    /\ Len(results) = Min(1, Len(batches))
    /\ successful' = CountTrue(results)
    /\ mainpc' = "returned"
    /\ UNCHANGED <<argVars, queryVars, qsleep, gateVars, results, embedVars, failures>>

\* the as_completed loop is exhausted: tally and return
Finish ==
    /\ mainpc = "collecting"
    /\ Len(results) = Len(batches)
    /\ successful' = CountTrue(results)
    /\ mainpc' = "returned"
    /\ UNCHANGED <<argVars, queryVars, qsleep, semaphore, last_request_times, pc, attempt, sleep,
                   holds, outcome, completed, results, admitted, calls, waits,
                   last_wait, embedVars>>
    /\ UNCHANGED failures

\* ------------------------------------------------------------------ time
Older(a) == Min(a + 1, TicksPerSecond)

RECURSIVE AgeAll(_)
AgeAll(s) ==
    IF s = <<>> THEN <<>>
    ELSE IF Head(s) + 1 >= TicksPerSecond THEN AgeAll(Tail(s))
    ELSE <<Head(s) + 1>> \o AgeAll(Tail(s))

\* one tick of time.time(): every timestamp is one tick older, every sleep
\* one tick nearer its end (a sleep may end late, never early)
Tick ==
    /\ mainpc = "collecting"
    /\ last_request_times' =
           [k \in DOMAIN last_request_times |-> Older(last_request_times[k])]
    /\ admitted' = AgeAll(admitted)
    /\ sleep' = [g \in DOMAIN sleep |-> IF sleep[g] > 0 THEN sleep[g] - 1 ELSE 0]
    /\ qsleep' = IF qsleep > 0 THEN qsleep - 1 ELSE 0
    /\ UNCHANGED <<argVars, queryVars, semaphore, pc, attempt, holds, outcome, completed,
                   mainVars, calls, waits, last_wait, embedVars>>
    /\ UNCHANGED failures

\* ------------------------------------------------------------------ Init
Costs == {1}

RECURSIVE SeqsUpTo(_, _)
SeqsUpTo(S, n) ==
    IF n = 0 THEN {<<>>}
    ELSE LET shorter == SeqsUpTo(S, n - 1)
         IN  shorter \cup {Append(s, x) : s \in {t \in shorter : Len(t) = n - 1}, x \in S}

InitState ==
    /\ semaphore = SemaphoreSize
    /\ last_request_times = <<>>
    /\ pc = [g \in 1..Len(batches) |-> "acquire"]
    /\ attempt = [g \in 1..Len(batches) |-> 0]
    /\ sleep = [g \in 1..Len(batches) |-> 0]
    /\ holds = [g \in 1..Len(batches) |-> FALSE]
    /\ outcome = [g \in 1..Len(batches) |-> "none"]
    /\ completed = <<>>
    /\ results = <<>>
    /\ mainpc = "collecting"
    /\ successful = 0
    /\ admitted = <<>>
    /\ calls = [g \in 1..Len(batches) |-> 0]
    /\ waits = [g \in 1..Len(batches) |-> 0]
    /\ last_wait = [g \in 1..Len(batches) |-> 0]
    /\ epc = [g \in 1..Len(batches) |-> "idle"]
    /\ i = [g \in 1..Len(batches) |-> 0]
    /\ current_batch_size = [g \in 1..Len(batches) |-> 0]
    /\ pattempt = [g \in 1..Len(batches) |-> 0]
    /\ eresults = [g \in 1..Len(batches) |-> <<>>]
    /\ warnings = [g \in 1..Len(batches) |-> <<>>]
    /\ submitted = [g \in 1..Len(batches) |-> EmptyBag]
    /\ pwaits = [g \in 1..Len(batches) |-> 0]
    /\ pcalls = [g \in 1..Len(batches) |-> 0]
    /\ failures = [g \in 1..Len(batches) |-> 0]
    /\ qpc = "idle"
    /\ query = 0
    /\ qattempt = 0
    /\ qsleep = 0
    /\ qinstances = <<>>
    /\ qinvocations = 0
    /\ qpredicts = 0

\* the VertexAIEmbeddings configurations
EmbConfig(bs, mt, rms, mr) ==
    [batch_size |-> bs, max_tokens |-> mt, retry_min_seconds |-> rms,
     max_retries |-> mr]

Init ==
    /\ emb = EmbConfig(MaxDocs, MaxTokens, 0, 0)
    /\ documents \in SeqsUpTo(Costs, MaxDocs)
    /\ batch_size \in BatchSizes
    /\ retry_min_seconds \in RetryMinSecondsChoices
    /\ max_retries \in MaxRetriesChoices
    /\ InitState

Next ==
    \/ \E g \in Tasks : Acquire(g)
    \/ \E g \in Tasks : RateLimitWake(g)
    \/ \E g \in Tasks : CallReturns(g)
    \/ \E g \in Tasks : CallRaises(g)
    \/ \E g \in Tasks : BackoffWake(g)
    \/ Collect
    \/ Finish
    \/ Tick

Spec == Init /\ [][Next]_vars

\* one step of the coroutine of task g, whichever it is ready for
TaskStep(g) ==
    /\ g \in Tasks
    /\ \/ Acquire(g)
       \/ RateLimitWake(g)
       \/ CallReturns(g)
       \/ CallRaises(g)
       \/ BackoffWake(g)

\* the same run under fair scheduling: the event loop resumes every coroutine
\* that is ready (a coroutine is ready for one kind of step at a time), every
\* downstream call returns or raises, and time goes on
\* runs of more than three groups are explored without retries
InitFair ==
    /\ Init
    /\ max_retries > 0 => Len(batches) <= 3

FairSpec ==
    /\ InitFair
    /\ [][Next]_vars
    /\ \A g \in 1..MaxDocs : WF_vars(TaskStep(g))
    /\ WF_vars(Collect \/ Finish)
    /\ WF_vars(Tick)

\* ---------------------------------------------------------------- SpecRun
\* the same run with the downstream call spelled out: aadd_documents embeds the
\* group with embed_documents and _predict_with_retry
InitRun ==
    /\ documents \in SeqsUpTo(RunCosts, MaxTexts)
    /\ batch_size \in RunBatchSizes
    /\ retry_min_seconds \in RunRetryMinSecondsChoices
    /\ max_retries \in RunMaxRetriesChoices
    /\ emb \in {EmbConfig(bs, MaxTokens, retry_min_seconds, mr) :
                    bs \in EmbBatchSizes, mr \in EmbMaxRetriesChoices}
    \* runs of several groups are explored with two groups and without retries
    /\ Len(batches) > 1 =>
           /\ Len(batches) = 2
           /\ max_retries = 0 /\ emb.max_retries = 0 /\ retry_min_seconds = 0
    \* the largest sizes are explored without retries
    /\ (batch_size = 3 \/ emb.batch_size = 3) =>
           max_retries = 0 /\ emb.max_retries = 0 /\ retry_min_seconds = 0
    /\ InitState

NextRun ==
    \/ \E g \in Tasks : Acquire(g)
    \/ \E g \in Tasks : RateLimitWake(g)
    \/ \E g \in Tasks : EmbedBegin(g)
    \/ \E g \in Tasks : EmbedOuter(g)
    \/ \E g \in Tasks : EmbedSubmit(g)
    \/ \E g \in Tasks : EmbedShrink(g)
    \/ \E g \in Tasks : EmbedSkip(g)
    \/ \E g \in Tasks : PredictReturns(g)
    \/ \E g \in Tasks : PredictRaises(g)
    \/ \E g \in Tasks : PredictWake(g)
    \/ \E g \in Tasks : AddDocumentsReturns(g)
    \/ \E g \in Tasks : AddDocumentsRaises(g)
    \/ \E g \in Tasks : BackoffWake(g)
    \/ Collect
    \/ Finish
    \/ Tick

SpecRun == InitRun /\ [][NextRun]_vars

\* -------------------------------------------------------------- SpecEmbed
\* one step of the embed_documents call of task g in its executor thread
EmbedStep(g) ==
    /\ g \in Tasks
    /\ \/ EmbedBegin(g)
       \/ EmbedOuter(g)
       \/ EmbedSubmit(g)
       \/ EmbedShrink(g)
       \/ EmbedSkip(g)
       \/ PredictReturns(g)
       \/ PredictRaises(g)
       \/ PredictWake(g)

\* a run of one group that holds all the texts, add_batch without retries
InitEmbed ==
    /\ documents \in SeqsUpTo(RunCosts, MaxTexts) \ {<<>>}
    /\ batch_size = MaxTexts
    /\ retry_min_seconds = 0
    /\ max_retries = 0
    /\ emb \in {EmbConfig(bs, MaxTokens, rms, mr) :
                    bs \in EmbBatchSizes, rms \in RunRetryMinSecondsChoices,
                    mr \in EmbMaxRetriesChoices}
    /\ InitState

NextEmbed ==
    \/ \E g \in Tasks : Acquire(g)
    \/ \E g \in Tasks : EmbedBegin(g)
    \/ \E g \in Tasks : EmbedOuter(g)
    \/ \E g \in Tasks : EmbedSubmit(g)
    \/ \E g \in Tasks : EmbedShrink(g)
    \/ \E g \in Tasks : EmbedSkip(g)
    \/ \E g \in Tasks : PredictReturns(g)
    \/ \E g \in Tasks : PredictRaises(g)
    \/ \E g \in Tasks : PredictWake(g)
    \/ \E g \in Tasks : AddDocumentsReturns(g)
    \/ \E g \in Tasks : AddDocumentsRaises(g)
    \/ Collect
    \/ Finish
    \/ Tick

\* the executor thread runs, every predict call returns or raises, time goes on
SpecEmbed ==
    /\ InitEmbed
    /\ [][NextEmbed]_vars
    /\ WF_vars(EmbedStep(1))
    /\ WF_vars(Tick)

\* -------------------------------------------------------------- SpecQuery
\* one call of embed_query on the embeddings object, no indexing run
QueryCosts == 0..(MaxTokens + 1)
QueryMaxRetriesChoices == {0, 1, 2}
QueryRetryMinSecondsChoices == {0, 1}

InitQuery ==
    /\ documents = <<>>
    /\ batch_size = 1
    /\ retry_min_seconds = 0
    /\ max_retries = 0
    /\ emb \in {EmbConfig(1, MaxTokens, rms, mr) :
                    rms \in QueryRetryMinSecondsChoices, mr \in QueryMaxRetriesChoices}
    /\ InitState

NextQuery ==
    \/ \E text \in QueryCosts : embed_query(text)
    \/ QueryPredictReturns
    \/ QueryPredictRaises
    \/ QueryPredictWake
    \/ Tick

SpecQuery == InitQuery /\ [][NextQuery]_vars

\* ------------------------------------------------------------------ claims
\* the tasks inside "async with semaphore"
Guarded == {g \in Tasks : pc[g] \in {"rl_sleep", "call", "backoff"}}

\* the tasks with a downstream call outstanding
Calling == {g \in Tasks : pc[g] = "call"}

\* C1: the admissions of the rate limiter that fall in the trailing second
\* never number more than MAX_REQUESTS_PER_SECOND.
RateCeiling == Len(admitted) <= MAX_REQUESTS_PER_SECOND

\* C2: at most SemaphoreSize tasks hold a permit, a downstream call is
\* outstanding only in a task that holds one, and so at most SemaphoreSize
\* calls are outstanding.
ConcurrencyBound ==
    /\ Cardinality({g \in Tasks : holds[g]}) <= SemaphoreSize
    /\ \A g \in Calling : holds[g]
    /\ Cardinality(Calling) <= SemaphoreSize

\* every permit is held, a call is outstanding, and a further task waits
ConcurrencyBoundWitness ==
    /\ Cardinality({g \in Tasks : holds[g]}) = SemaphoreSize
    /\ Calling # {}
    /\ \E g \in Tasks : pc[g] = "acquire" /\ ~holds[g]

PermitAccounting ==
    /\ semaphore + Cardinality(Guarded) = SemaphoreSize
    /\ \A g \in Tasks : holds[g] <=> g \in Guarded
    /\ mainpc = "returned" => semaphore = SemaphoreSize

\* a finished run in which one task succeeded only after a retry and another
\* exhausted its retries
PermitAccountingWitness ==
    /\ mainpc = "returned"
    /\ \E g \in Tasks : outcome[g] = "True" /\ calls[g] >= 2
    /\ \E g \in Tasks : outcome[g] = "False" /\ calls[g] >= 2

\* the predict requests a task has made so far, each <<i, size>>
Submitted(g) == BagToSet(submitted[g])

\* the token cost of the request <<i, size>> of task g, by the documents
RequestCost(g, b) ==
    SeqSum([k \in 1 .. (b[2]) |-> documents[(g - 1) * batch_size + b[1] + k]])

\* the text at position k (from 0) of the group of task g costs more than
\* the budget on its own
Oversized(g, k) == documents[(g - 1) * batch_size + k + 1] > emb.max_tokens

\* number of texts in the group of task g
GroupLen(g) == Min(batch_size, Len(documents) - (g - 1) * batch_size)

\* how often the text at position k of the group of task g was sent
TimesSent(g, k) ==
    LET covering == {b \in Submitted(g) : b[1] <= k /\ k < b[1] + b[2]}
        F[S \in SUBSET covering] ==
            IF S = {} THEN 0
            ELSE LET b == CHOOSE x \in S : TRUE
                 IN  CopiesIn(b, submitted[g]) + F[S \ {b}]
    IN  F[covering]

\* C3: every batch handed to _predict_with_retry costs at most max_tokens.
TokenBudget ==
    \A g \in Tasks : \A b \in Submitted(g) : RequestCost(g, b) <= emb.max_tokens

\* a batch was sent that had to be shrunk to fit, and one that fills the budget
TokenBudgetWitness ==
    \E g \in Tasks :
        /\ emb.batch_size >= 2
        /\ GroupLen(g) >= 2
        /\ <<0, 1>> \in Submitted(g)
        /\ \E b \in Submitted(g) : RequestCost(g, b) = emb.max_tokens

\* C4: neither retry loop goes beyond attempt index max_retries; work that
\* failed every time was attempted max_retries + 1 times with max_retries
\* backoff waits between, and then add_batch returned False and
\* _predict_with_retry re-raised.
RetryBound ==
    \A g \in Tasks :
        /\ attempt[g] <= max_retries
        /\ calls[g] <= max_retries + 1
        /\ waits[g] <= max_retries
        /\ outcome[g] = "False" =>
              calls[g] = max_retries + 1 /\ waits[g] = max_retries
        /\ outcome[g] \in {"none", "True", "False"}
        /\ pattempt[g] <= emb.max_retries
        /\ pcalls[g] <= emb.max_retries + 1
        /\ pwaits[g] <= emb.max_retries
        /\ epc[g] = "raised" =>
              /\ pattempt[g] = emb.max_retries
              /\ pcalls[g] = emb.max_retries + 1
              /\ pwaits[g] = emb.max_retries
        /\ epc[g] # "runtime_error"

\* add_batch gave up after three calls, each of which ended in
\* _predict_with_retry giving up after two
RetryBoundWitness ==
    \E g \in Tasks :
        /\ max_retries = 2
        /\ emb.max_retries = 1
        /\ outcome[g] = "False"
        /\ calls[g] = 3
        /\ waits[g] = 2
        /\ pcalls[g] = 2
        /\ pwaits[g] = 1
        /\ failures[g] = 6

\* the larger of the two retry limits
MaxOfRetries == IF max_retries > emb.max_retries THEN max_retries ELSE emb.max_retries

\* C5: over a run no Batch is sent to the embedding service more than
\* max_retries + 1 times, whichever retry loop caused the sending.
PerBatchAttemptBound ==
    \A g \in Tasks : \A b \in Submitted(g) :
        CopiesIn(b, submitted[g]) <= MaxOfRetries + 1

\* no downstream call has failed
NoFailures == \A g \in Tasks : failures[g] = 0

\* how often document d (from 1) was sent, by the group it belongs to
DocTimesSent(d) ==
    LET g == ((d - 1) \div batch_size) + 1
    IN  IF g \in DOMAIN submitted THEN TimesSent(g, (d - 1) % batch_size) ELSE 0

\* C6: after a run in which every downstream call succeeded, every document
\* within the budget has been sent in exactly one batch and no oversized one
\* in any.
Completeness ==
    (mainpc = "returned" /\ NoFailures) =>
        \A d \in 1..Len(documents) :
            DocTimesSent(d) = IF documents[d] > emb.max_tokens THEN 0 ELSE 1

\* such a run over two groups, the second one short, with a batch that had to
\* be shrunk and an oversized document
CompletenessWitness ==
    /\ mainpc = "returned"
    /\ NoFailures
    /\ Len(batches) = 2
    /\ Len(documents) % batch_size # 0
    /\ \E d \in 1..Len(documents) : documents[d] > emb.max_tokens
    /\ \E g \in Tasks : emb.batch_size >= 2 /\ GroupLen(g) >= 2 /\ <<0, 1>> \in Submitted(g)

\* the positions below n of the group of task g that are oversized, in order
RECURSIVE OversizedBelow(_, _)
OversizedBelow(g, n) ==
    IF n = 0 THEN <<>>
    ELSE IF Oversized(g, n - 1)
         THEN Append(OversizedBelow(g, n - 1), n - 1)
         ELSE OversizedBelow(g, n - 1)

\* while embed_documents runs: the warnings name exactly the oversized texts
\* the cursor has passed, each once and in order, every other text the cursor
\* has passed was sent, and no oversized text was ever sent
SkipState ==
    \A g \in Tasks :
        /\ \A b \in Submitted(g) : \A k \in (b[1]) .. (b[1] + b[2] - 1) : ~Oversized(g, k)
        /\ epc[g] \notin {"idle"} =>
              /\ warnings[g] = OversizedBelow(g, Min(i[g], GroupLen(g)))
              /\ \A k \in 0..(Min(i[g], GroupLen(g)) - 1) :
                    ~Oversized(g, k) => TimesSent(g, k) >= 1

\* the step that leaves the inner loop with size 0 logs the cursor's index and
\* moves the cursor by one; every new cursor position starts at the full size
SkipStep ==
    \A g \in Tasks :
        /\ (epc[g] = "inner" /\ current_batch_size[g] = 0 /\ epc'[g] # "inner") =>
              /\ warnings'[g] = Append(warnings[g], i[g])
              /\ i'[g] = i[g] + 1
              /\ epc'[g] = "outer"
        /\ (epc[g] = "outer" /\ epc'[g] = "inner") =>
              current_batch_size'[g] = emb.batch_size

\* C7: an oversized text is in no batch; when the size reaches 0 at its
\* position one warning names it, the cursor moves on by one, and batching
\* resumes at the full size, so that the texts after it are sent.
OversizedSkip == []SkipState /\ [][SkipStep]_vars

\* embed_documents returned after skipping its first text and sending the next
OversizedSkipWitness ==
    \E g \in Tasks :
        /\ epc[g] = "returned"
        /\ warnings[g] = <<0>>
        /\ <<1, 1>> \in Submitted(g)

\* the groups with at least one text within the budget
PackableGroups == {g \in Tasks : \E k \in 0..(GroupLen(g) - 1) : ~Oversized(g, k)}

\* C8 as stated: oversized texts count neither as succeeded nor as failed, so
\* a group made of oversized texts alone is in neither count.
SkippedCountedSeparately ==
    mainpc = "returned" =>
        /\ successful <= Cardinality(PackableGroups)
        /\ Len(results) - successful <= Cardinality(PackableGroups)

\* C8 as amended: the result of a run is a tally by group alone; a group is
\* counted as succeeded or failed by what its add_batch returned, whether or
\* not texts of it were skipped, and the skipped texts of a group that
\* succeeded are named by its warnings and nowhere else.
TallyByGroup ==
    mainpc = "returned" =>
        /\ Len(results) = Len(batches)
        /\ successful = Cardinality({g \in Tasks : outcome[g] = "True"})
        /\ Len(results) - successful = Cardinality({g \in Tasks : outcome[g] = "False"})
        /\ \A g \in Tasks :
              outcome[g] = "True" => warnings[g] = OversizedBelow(g, GroupLen(g))

\* a run has returned with a group of oversized texts alone counted as
\* succeeded, and another with such a group counted as failed
TallyByGroupWitness ==
    /\ mainpc = "returned"
    /\ Len(batches) = 2
    /\ PackableGroups = {}
    /\ successful = 1

\* a finished success came after as many failed calls as the attempt index it
\* was made at says, each followed by one backoff wait
TransientState ==
    \A g \in Tasks :
        outcome[g] = "True" =>
            /\ attempt[g] \in 0..max_retries
            /\ calls[g] = attempt[g] + 1
            /\ waits[g] = attempt[g]

\* the step that begins a backoff wait: it follows failed attempt a, lasts
\* retry_min_seconds * 2^a seconds and a jitter of at most a second, and with
\* retry_min_seconds >= 1 it is longer than the wait before it
BackoffStep ==
    \A g \in Tasks :
        /\ waits'[g] = waits[g] + 1 =>
            /\ pc[g] = "call" /\ pc'[g] = "backoff"
            /\ waits[g] = attempt[g]
            /\ sleep'[g] - retry_min_seconds * TicksPerSecond * (2 ^ attempt[g])
                   \in 0..TicksPerSecond
            /\ (retry_min_seconds >= 1 /\ attempt[g] >= 1) => sleep'[g] > last_wait[g]
        /\ pwaits'[g] = pwaits[g] + 1 =>
            /\ epc[g] = "predict" /\ epc'[g] = "psleep"
            /\ pwaits[g] = pattempt[g]
            /\ sleep'[g] - emb.retry_min_seconds * TicksPerSecond * (2 ^ pattempt[g])
                   \in 0..TicksPerSecond

\* C11: a group whose call fails k <= max_retries times and then succeeds is
\* reported as a success after k + 1 attempts and k backoff waits; the wait
\* after failed attempt a is retry_min_seconds * 2^a plus a jitter within a
\* second, and for retry_min_seconds >= 1 the waits grow strictly.
TransientSuccess == []TransientState /\ [][BackoffStep]_vars

\* a group succeeded at its third attempt after two waits, the second of them
\* compared with the first
TransientSuccessWitness ==
    \E g \in Tasks :
        /\ retry_min_seconds = 1
        /\ max_retries = 2
        /\ outcome[g] = "True"
        /\ calls[g] = 3
        /\ waits[g] = 2

\* the timestamps of the window that are less than a second old
Young == {k \in DOMAIN last_request_times : last_request_times[k] < TicksPerSecond}

\* a call is outstanding only under a permit and in the attempt it was admitted
\* for; a task still before its admission has made no call in this attempt
PipelineState ==
    \A g \in Tasks :
        /\ pc[g] = "call" => holds[g] /\ calls[g] = attempt[g] + 1
        /\ pc[g] = "rl_sleep" => holds[g] /\ calls[g] = attempt[g]
        /\ pc[g] = "acquire" => ~holds[g] /\ calls[g] = attempt[g]
        /\ pc[g] = "backoff" => holds[g] /\ calls[g] = attempt[g] + 1
        /\ pc[g] = "done" => ~holds[g]

\* a call starts in the step that appends the task's own timestamp, under the
\* permit, after the window was found with room or the limiter's sleep ended;
\* a permit is taken only at the start of an attempt and given back only after
\* the call of that attempt
PipelineStep ==
    \A g \in Tasks :
        /\ calls'[g] # calls[g] =>
            /\ calls'[g] = calls[g] + 1
            /\ pc'[g] = "call"
            /\ holds'[g]
            /\ \/ pc[g] = "acquire" /\ ~holds[g] /\ semaphore > 0
                  /\ Cardinality(Young) < MAX_REQUESTS_PER_SECOND
               \/ pc[g] = "rl_sleep" /\ holds[g] /\ sleep[g] = 0
            /\ last_request_times' # <<>>
            /\ last_request_times'[Len(last_request_times')] = 0
            /\ admitted' = Append(admitted, 0)
        /\ (~holds[g] /\ holds'[g]) =>
            /\ pc[g] = "acquire"
            /\ semaphore' = semaphore - 1
            /\ pc'[g] \in {"rl_sleep", "call"}
        /\ (holds[g] /\ ~holds'[g]) =>
            /\ pc[g] \in {"call", "backoff"}
            /\ calls[g] = attempt[g] + 1
            /\ semaphore' = semaphore + 1

\* C12: every downstream call of add_batch, first attempt or retry, is made
\* under a permit and after the same attempt passed the rate limiter and
\* appended its own timestamp; acquire, admission, call, release come in this
\* order and none is skipped.
PipelineOrder == []PipelineState /\ [][PipelineStep]_vars

\* a retry is calling under its permit while another task sleeps in the limiter
PipelineOrderWitness ==
    \E g, h \in Tasks :
        /\ pc[g] = "call" /\ attempt[g] = 1 /\ holds[g]
        /\ pc[h] = "rl_sleep"

\* ceil(n / b) for n >= 0 and b >= 1
CeilDiv(n, b) == CHOOSE q \in 0..n : q * b >= n /\ (q - 1) * b < n

\* how many entries of a sequence equal v
CountOf(rs, v) == Cardinality({k \in DOMAIN rs : rs[k] = v})

\* C13: when index_documents_async has finished, one outcome has been collected
\* for each group whatever the order of completion; the groups number
\* ceil(len(documents) / batch_size), and succeeded + failed is that number,
\* succeeded being the groups whose add_batch returned True.
Tally ==
    mainpc = "returned" =>
        /\ Len(batches) = CeilDiv(Len(documents), batch_size)
        /\ Cardinality(Tasks) = Len(batches)
        /\ Len(results) = Cardinality(Tasks)
        /\ results = completed
        /\ \A v \in {"True", "False"} :
              CountOf(results, v) = Cardinality({g \in Tasks : outcome[g] = v})
        /\ successful = CountOf(results, "True")
        /\ successful + CountOf(results, "False") = CeilDiv(Len(documents), batch_size)

\* a finished run of two groups, the second one short, whose second group
\* finished first
TallyWitness ==
    /\ mainpc = "returned"
    /\ Len(documents) = 3
    /\ batch_size = 2
    /\ outcome = <<"True", "False">>
    /\ results = <<"False", "True">>

\* the reference greedy packer on the texts of task g from cursor c on: the
\* longest prefix of at most emb.batch_size remaining texts within the budget
\* is a batch, and a text that fits no batch is passed over
RECURSIVE GreedyFrom(_, _)
GreedyFrom(g, c) ==
    IF c >= GroupLen(g) THEN {}
    ELSE LET sizes == {n \in 1..Min(emb.batch_size, GroupLen(g) - c) :
                          RequestCost(g, <<c, n>>) <= emb.max_tokens}
         IN  IF sizes = {} THEN GreedyFrom(g, c + 1)
             ELSE LET n == CHOOSE m \in sizes : \A o \in sizes : o <= m
                  IN  {<<c, n>>} \cup GreedyFrom(g, c + n)

\* C14: the batches embed_documents emits are those of the reference greedy
\* packer: at each cursor position the longest prefix of at most G remaining
\* texts whose costs sum to at most T, after which the cursor moves past the
\* batch and the size starts again from G.
GreedyPacking ==
    \A g \in Tasks :
        /\ Submitted(g) \subseteq GreedyFrom(g, 0)
        /\ (epc[g] \in {"outer", "inner"} /\ calls[g] = 1) =>
              Submitted(g) = {b \in GreedyFrom(g, 0) : b[1] < i[g]}
        /\ epc[g] = "returned" => Submitted(g) = GreedyFrom(g, 0)
        /\ outcome[g] = "True" => Submitted(g) = GreedyFrom(g, 0)

\* a costly text followed by two cheap ones, sizes of three: embed_documents
\* returned after sending the costly text alone and the other two together
GreedyPackingWitness ==
    /\ documents = <<2, 1, 1>>
    /\ batch_size = 3
    /\ emb.batch_size = 3
    /\ epc[1] = "returned"
    /\ Submitted(1) = {<<0, 1>>, <<1, 2>>}

\* C15: embed_query refuses a query of more than max_tokens tokens with a
\* ValueError before anything is sent, and for a query within the budget it
\* invokes _predict_with_retry exactly once, with the single instance of the
\* query as a RETRIEVAL_QUERY.
QueryBudget ==
    qpc # "idle" =>
        /\ query > emb.max_tokens =>
              /\ qpc = "value_error"
              /\ qinvocations = 0
              /\ qpredicts = 0
              /\ qinstances = <<>>
        /\ query <= emb.max_tokens =>
              /\ qpc # "value_error"
              /\ qinvocations = 1
              /\ qpredicts >= 1
              /\ Len(qinstances) = 1
              /\ qinstances[1].task_type = "RETRIEVAL_QUERY"
              /\ qinstances[1].content = query

\* a query one token over the budget was refused
QueryBudgetWitness ==
    /\ qpc = "value_error"
    /\ query = emb.max_tokens + 1

\* while _predict_with_retry runs its attempt index is within 0..max_retries;
\* it has raised only at the attempt with index max_retries, and the line
\* after its loop is not reached
PredictState ==
    \A g \in Tasks :
        /\ epc[g] # "runtime_error"
        /\ epc[g] \in {"predict", "psleep"} =>
              /\ pattempt[g] \in 0..emb.max_retries
              /\ pcalls[g] = pattempt[g] + 1
        /\ epc[g] = "psleep" => pattempt[g] < emb.max_retries
        /\ epc[g] = "raised" =>
              /\ pattempt[g] = emb.max_retries
              /\ pcalls[g] = emb.max_retries + 1

\* a predict call ends in one of three ways: its response is returned at once
\* (every earlier call of the invocation having failed), its error is
\* re-raised at the last attempt, or a sleep begins before the next attempt
PredictStep ==
    \A g \in Tasks :
        /\ (epc[g] = "predict" /\ epc'[g] # "predict") =>
              \/ /\ epc'[g] = "outer"
                 /\ pwaits[g] = pattempt[g]
                 /\ failures'[g] = failures[g]
                 /\ Len(eresults'[g]) = Len(eresults[g]) + Len(CurrentBatch(g))
                 /\ pcalls'[g] = pcalls[g]
              \/ /\ epc'[g] = "raised"
                 /\ pattempt[g] = emb.max_retries
                 /\ failures'[g] = failures[g] + 1
              \/ /\ epc'[g] = "psleep"
                 /\ pattempt[g] < emb.max_retries
                 /\ failures'[g] = failures[g] + 1
        /\ (epc[g] = "psleep" /\ epc'[g] # "psleep") =>
              /\ sleep[g] = 0
              /\ epc'[g] = "predict"
              /\ pattempt'[g] = pattempt[g] + 1

\* C16: _predict_with_retry, for every max_retries >= 0, either returns the
\* response of its first successful predict call or, when the attempt with
\* index max_retries has failed, re-raises that error; the RuntimeError after
\* its loop is never raised.
PredictOutcomes == []PredictState /\ [][PredictStep]_vars

\* _predict_with_retry re-raised after a retry
PredictOutcomesWitness ==
    \E g \in Tasks :
        /\ emb.max_retries = 1
        /\ epc[g] = "raised"
        /\ pwaits[g] = 1

\* C17: under fair scheduling of the tasks and of time, every downstream call
\* returning or raising, every task of a run ends with True or False and the
\* run returns; tasks are not left waiting for ever for the semaphore, the
\* limiter's sleep or a backoff sleep.
Termination ==
    <>(/\ mainpc = "returned"
       /\ \A g \in Tasks : pc[g] = "done" /\ outcome[g] \in {"True", "False"})

\* every permit is held by a sleeping task while another task waits for one
TerminationWitness ==
    /\ semaphore = 0
    /\ \A g \in Tasks : holds[g] => pc[g] \in {"backoff", "rl_sleep"} /\ sleep[g] > 0
    /\ \E g \in Tasks : pc[g] = "rl_sleep"
    /\ \E g \in Tasks : pc[g] = "acquire"

\* a task has at most one call more than its attempt index says, every call
\* but an outstanding or a successful one has failed, and a finished task is
\* in no attempt
SequentialState ==
    \A g \in Tasks :
        /\ calls[g] \in {attempt[g], attempt[g] + 1}
        /\ failures[g] \in {calls[g] - 1, calls[g]}
        /\ (calls[g] > 0 /\ failures[g] = calls[g] - 1) <=>
              (pc[g] = "call" \/ outcome[g] = "True")
        /\ pc[g] = "done" => outcome[g] \in {"True", "False"} /\ sleep[g] = 0

\* the next attempt begins only when the one before has failed and its
\* backoff sleep is over; a call begins only when all calls before it have
\* failed and been waited for; a finished task begins nothing
SequentialStep ==
    \A g \in Tasks :
        /\ attempt'[g] # attempt[g] =>
              /\ attempt'[g] = attempt[g] + 1
              /\ pc[g] = "backoff"
              /\ sleep[g] = 0
              /\ failures[g] = attempt[g] + 1
              /\ waits[g] = attempt[g] + 1
        /\ calls'[g] # calls[g] =>
              /\ calls'[g] = calls[g] + 1
              /\ calls[g] = attempt[g]
              /\ failures[g] = calls[g]
              /\ waits[g] = calls[g]
              /\ outcome[g] = "none"
        /\ pc[g] = "done" =>
              /\ pc'[g] = "done"
              /\ calls'[g] = calls[g]
              /\ attempt'[g] = attempt[g]
              /\ outcome'[g] = outcome[g]

\* C18: the attempts of a group come one after another: at most one is in
\* progress, attempt a + 1 starts only after attempt a failed and its backoff
\* wait ended, and none starts after the group succeeded or gave up.
SequentialRetries == []SequentialState /\ [][SequentialStep]_vars

\* a second attempt is calling while another task is still in its backoff
SequentialRetriesWitness ==
    \E g, h \in Tasks :
        /\ pc[g] = "call" /\ calls[g] = 2 /\ failures[g] = 1
        /\ pc[h] = "backoff" /\ sleep[h] > 0

\* a timestamp of less than a second
IsYoung(a) == a < TicksPerSecond

\* C19: a timestamp leaves last_request_times only when it is a second old, so
\* that the window holds, in order, the timestamp of every admission of the
\* last second; appending to a full window discards no younger entry.
WindowAccuracy == SelectSeq(last_request_times, IsYoung) = admitted

\* embed_documents is inside its loops
EmbedRunning(g) == epc[g] \in {"outer", "inner", "predict", "psleep"}

\* inside the loops the size is between 0 and batch_size, so that it was
\* decremented at most batch_size times at this cursor position, and the
\* cursor is on a text; embed_documents raises only after a failed call
EmbedProgressState ==
    \A g \in Tasks :
        /\ epc[g] \in {"inner", "predict", "psleep"} =>
              /\ current_batch_size[g] \in 0..emb.batch_size
              /\ i[g] \in 0..(GroupLen(g) - 1)
        /\ epc[g] \in {"predict", "psleep"} => current_batch_size[g] >= 1
        /\ epc[g] = "raised" => failures[g] > 0

\* a pass of the outer loop ends with the cursor further on, by the emitted
\* size or by one on a skip; the size changes inside the inner loop by one
\* decrement at a time
EmbedProgressStep ==
    \A g \in Tasks :
        /\ (epc[g] = "predict" /\ epc'[g] = "outer") =>
              i'[g] = i[g] + current_batch_size[g] /\ i'[g] >= i[g] + 1
        /\ (epc[g] = "inner" /\ epc'[g] = "outer") =>
              current_batch_size[g] = 0 /\ i'[g] = i[g] + 1
        /\ (epc[g] = "inner" /\ current_batch_size'[g] # current_batch_size[g]) =>
              current_batch_size'[g] = current_batch_size[g] - 1
        /\ (EmbedRunning(g) /\ EmbedRunning(g)') => i'[g] >= i[g]

\* C20: embed_documents terminates, with its result when every predict call
\* returns; every pass of its outer loop moves the cursor on by at least one,
\* and the inner loop decrements the size at most batch_size times at a cursor
\* position.
BatcherTermination ==
    /\ []EmbedProgressState
    /\ [][EmbedProgressStep]_vars
    /\ EmbedRunning(1) ~> (epc[1] \in {"returned", "raised"})

\* embed_documents returned after a skip, a shrink and two batches
BatcherTerminationWitness ==
    /\ documents = <<3, 2, 1>>
    /\ emb.batch_size = 2
    /\ epc[1] = "returned"
    /\ warnings[1] = <<0>>
    /\ Submitted(1) = {<<1, 1>>, <<2, 1>>}
    /\ failures[1] = 0

\* the positions below n of the group of task g that are within the budget,
\* in order
RECURSIVE KeptBelow(_, _)
KeptBelow(g, n) ==
    IF n = 0 THEN <<>>
    ELSE IF Oversized(g, n - 1)
         THEN KeptBelow(g, n - 1)
         ELSE Append(KeptBelow(g, n - 1), n - 1)

\* C21: with one prediction per instance from every predict call,
\* embed_documents returns the embeddings of exactly the texts it did not
\* skip, in input order: the result is as long as the texts less the oversized
\* ones, and its j-th entry belongs to the j-th text that was not skipped.
ResultAlignment ==
    \A g \in Tasks :
        /\ epc[g] = "outer" =>
              eresults[g] = KeptBelow(g, Min(i[g], GroupLen(g)))
        /\ epc[g] = "returned" =>
              /\ eresults[g] = KeptBelow(g, GroupLen(g))
              /\ Len(eresults[g]) =
                     GroupLen(g) - Len(OversizedBelow(g, GroupLen(g)))
              /\ \A j \in 1..Len(eresults[g]) :
                    /\ ~Oversized(g, eresults[g][j])
                    /\ Cardinality({k \in 0..(eresults[g][j] - 1) : ~Oversized(g, k)})
                           = j - 1

\* embed_documents returned the embeddings of the first and the third text,
\* sent in two batches, the second text being oversized
ResultAlignmentWitness ==
    /\ documents = <<1, 3, 1>>
    /\ epc[1] = "returned"
    /\ warnings[1] = <<1>>
    /\ eresults[1] = <<0, 2>>

====
